---------------------------- MODULE Spec2Model ----------------------------
(***************************************************************************)
(* Model of the article recommender (src/Article/recommender.py) and of    *)
(* the second front end (src/Article/app.py).                              *)
(*                                                                         *)
(* Representation.                                                         *)
(*  - A Python string is a sequence of symbols.  A symbol is one character *)
(*    (" ", "a", "A", ...) or a fixed run of characters written as one     *)
(*    token ("Please enter", ": '", ...).  Among the strings used here no  *)
(*    two symbol sequences spell the same characters, and one spells a     *)
(*    prefix of another only when it is a prefix of it as a sequence, so   *)
(*    str.startswith is the prefix relation on symbol sequences and == is  *)
(*    equality of symbol sequences.                                        *)
(*  - A Python value is a record [type, s, n]: a str carries its symbols   *)
(*    in s, an int its value in n, a float the integer part in n.          *)
(*  - The table df is a sequence of rows [Title, Article]; a row's Article *)
(*    text is abstracted to whether TfidfVectorizer(stop_words='english')  *)
(*    finds a term in it ("terms") or none ("stopwords").                  *)
(*  - A similarity score is one of the levels 0..MaxScore; MaxScore stands *)
(*    for 1.0, the cosine of a non-zero vector with itself.                *)
(***************************************************************************)
EXTENDS Integers, Sequences, FiniteSets

VARIABLES
    pc,               \* where the script is: "load", "check", "process", "ui"
                      \* (recommender.py up to line 98 done), "imported" (the
                      \* module is loaded, no call in progress), "called" (a
                      \* call has returned and was displayed), "stopped"
    df,               \* the table returned by load_articles(), or None
    cosine_sim,       \* the similarity matrix, or None before it is built
    st_error,         \* the message st.error shows on the page, "" when none
    title,            \* argument of the call of recommend_articles just made
    top_n,            \* argument of the call of recommend_articles just made
    recommendations,  \* the list that call returned, None outside a call
    display           \* what the presentation code put on the page for it

vars == <<pc, df, cosine_sim, st_error, title, top_n, recommendations, display>>

\* None, for a name that holds a value (title, top_n), a table, a matrix, a list
None == [type |-> "NoneType", s |-> <<>>, n |-> 0]
NoTable == [type |-> "NoneType", rows |-> <<>>]
NoMatrix == [type |-> "NoneType", m |-> <<>>]
NoList == [type |-> "NoneType", items |-> <<>>]
NoDisplay == [ui |-> "", kind |-> "none", called |-> FALSE, items |-> <<>>]

(***************************************************************************)
(* Bounds of the model.                                                    *)
(***************************************************************************)
MaxArticles == 3      \* rows of articles.csv
MaxScore == 2         \* similarity levels are 0..MaxScore
MaxTopN == 3          \* top_n ranges over -MaxTopN..MaxTopN

\* def recommend_articles(title, top_n=5)
DefaultTopN == 5

\* possible_paths has four entries
NumPaths == 4

(***************************************************************************)
(* Python values and strings.                                              *)
(***************************************************************************)
PyStr(s) == [type |-> "str", s |-> s, n |-> 0]
PyInt(n) == [type |-> "int", s |-> <<>>, n |-> n]
PyFloat(n) == [type |-> "float", s |-> <<>>, n |-> n]

\* isinstance(title, str)
IsStr(v) == v.type = "str"

RECURSIVE LStrip(_)
LStrip(s) == IF s # <<>> /\ Head(s) = " " THEN LStrip(Tail(s)) ELSE s

RECURSIVE RStrip(_)
RStrip(s) ==
    IF s # <<>> /\ s[Len(s)] = " " THEN RStrip(SubSeq(s, 1, Len(s) - 1)) ELSE s

\* str.strip(): leading and trailing whitespace removed
Strip(s) == RStrip(LStrip(s))

\* str.startswith(prefix)
StartsWith(s, prefix) ==
    /\ Len(prefix) <= Len(s)
    /\ SubSeq(s, 1, Len(prefix)) = prefix

(***************************************************************************)
(* The messages recommend_articles returns in place of a ranking.          *)
(***************************************************************************)
MsgInvalidInput == <<"Invalid input", ": title must be a string">>
MsgPleaseEnter == <<"Please enter", " an article title">>
MsgNotFound(t) == <<"Article not found", ": '">> \o t \o <<"'">>
MsgError == <<"Error generating recommendations">>

(***************************************************************************)
(* The corpus: what pd.read_csv can find in articles.csv.                  *)
(***************************************************************************)
\* The title of the i-th row of the file.  Titles are unique, as the data
\* model requires (with unique titles index[0] of line 88 is the only match);
\* the second one begins with the words of a failure message.
TitleOf(i) ==
    CASE i = 1 -> <<"a">>
      [] i = 2 -> <<"Please enter", " ", "b">>
      [] i = 3 -> <<"b">>
      [] OTHER -> [k \in 1..i |-> "c"]

ArticleTexts == {"stopwords", "terms"}

\* The tables a readable articles.csv with both columns can hold.
Corpora ==
    UNION {
        { [i \in 1..n |-> [Title |-> TitleOf(i), Article |-> a[i]]] :
              a \in [1..n -> ArticleTexts] } : n \in 0..MaxArticles }

DataFrame(rows) == [type |-> "DataFrame", rows |-> rows]

\* len(df)
Size == Len(df.rows)

\* df['Title'].values
Titles == [i \in 1..Size |-> df.rows[i].Title]

(***************************************************************************)
(* load_articles().  fs[p] is what the p-th entry of possible_paths holds. *)
(***************************************************************************)
FileStates == {"absent", "empty", "unparsable", "nocolumns", "ok"}

RECURSIVE FirstExisting(_, _)
\* the loop over possible_paths: an absent path is skipped (continue), the
\* first path that exists decides (return df or raise); 0 when none exists
FirstExisting(fs, p) ==
    IF p > NumPaths THEN 0
    ELSE IF fs[p] = "absent" THEN FirstExisting(fs, p + 1)
    ELSE p

\* the message passed to st.error by the outer except, "" when the load succeeds
LoadError(fs) ==
    LET p == FirstExisting(fs, 1) IN
    IF p = 0 THEN "Error loading articles: Could not find articles.csv"
    ELSE CASE fs[p] = "empty" -> "Error loading articles: File is empty"
           [] fs[p] = "unparsable" -> "Error loading articles: Error parsing CSV file"
           [] fs[p] = "nocolumns" -> "Error loading articles: CSV missing required columns"
           [] fs[p] = "ok" -> ""

\* df = load_articles()
LoadArticles ==
    /\ pc = "load"
    /\ \E fs \in [1..NumPaths -> FileStates], rows \in Corpora :
          IF LoadError(fs) = ""
          THEN /\ df' = DataFrame(rows)
               /\ st_error' = st_error
          ELSE /\ df' = NoTable
               /\ st_error' = LoadError(fs)
    /\ pc' = "check"
    /\ UNCHANGED <<cosine_sim, title, top_n, recommendations, display>>

\* if df is None: st.stop()
CheckLoaded ==
    /\ pc = "check"
    /\ pc' = IF df = NoTable THEN "stopped" ELSE "process"
    /\ UNCHANGED <<df, cosine_sim, st_error, title, top_n, recommendations, display>>

(***************************************************************************)
(* The index build: TfidfVectorizer.fit_transform and cosine_similarity.   *)
(***************************************************************************)
\* fit_transform raises ValueError (empty vocabulary) when no document holds
\* a term: a table without rows, or with stop words only.
VectorizeFails(rows) == \A i \in 1..Len(rows) : rows[i].Article = "stopwords"

Pairs(n) == {p \in (1..n) \X (1..n) : p[1] < p[2]}

\* The matrices cosine_similarity can return for the rows: symmetric; the
\* row and column of an all-zero vector are 0, diagonal included; a non-zero
\* vector scores MaxScore with itself, and any level with another non-zero
\* vector (MaxScore for a text with the same vector).
SimilarityMatrices(rows) ==
    LET n == Len(rows)
        zero(i) == rows[i].Article = "stopwords"
        U == {u \in [Pairs(n) -> 0..MaxScore] :
                 \A p \in Pairs(n) : (zero(p[1]) \/ zero(p[2])) => u[p] = 0}
    IN  { [i \in 1..n |-> [j \in 1..n |->
              IF i = j THEN (IF zero(i) THEN 0 ELSE MaxScore)
              ELSE IF i < j THEN u[<<i, j>>] ELSE u[<<j, i>>]]] : u \in U }

NdArray(m) == [type |-> "ndarray", m |-> m]

\* the build with the st.stop() of line 74 left out
ProcessArticlesNoStop ==
    /\ pc = "process"
    /\ IF VectorizeFails(df.rows)
       THEN /\ st_error' = "Error processing articles"
            /\ UNCHANGED cosine_sim
       ELSE /\ \E m \in SimilarityMatrices(df.rows) : cosine_sim' = NdArray(m)
            /\ UNCHANGED st_error
    /\ pc' = "ui"
    /\ UNCHANGED <<df, title, top_n, recommendations, display>>

\* the try block of lines 62-74
ProcessArticles ==
    /\ pc = "process"
    /\ IF VectorizeFails(df.rows)
       THEN /\ st_error' = "Error processing articles"
            /\ pc' = "stopped"
            /\ UNCHANGED cosine_sim
       ELSE /\ \E m \in SimilarityMatrices(df.rows) : cosine_sim' = NdArray(m)
            /\ pc' = "ui"
            /\ UNCHANGED st_error
    /\ UNCHANGED <<df, title, top_n, recommendations, display>>

(***************************************************************************)
(* recommend_articles(title, top_n).                                       *)
(***************************************************************************)
\* title in df['Title'].values: exact comparison with every stored title
InTitles(s) == \E i \in 1..Size : Titles[i] = s

\* df[df['Title'] == title].index[0]: the position (from 0) of the first match
FirstIndex(s) ==
    CHOOSE p \in 0..(Size - 1) :
        /\ Titles[p + 1] = s
        /\ \A q \in 0..(p - 1) : Titles[q + 1] # s

\* list(enumerate(row)): pairs (position from 0, score)
Enumerate(row) == [i \in 1..Len(row) |-> <<i - 1, row[i]>>]

RECURSIVE InsertDescBeforeTies(_, _)
\* x put in front of the pairs of its own score: ties come out reversed
InsertDescBeforeTies(x, s) ==
    IF s = <<>> THEN <<x>>
    ELSE IF Head(s)[2] > x[2] THEN <<Head(s)>> \o InsertDescBeforeTies(x, Tail(s))
    ELSE <<x>> \o s

RECURSIVE InsertDesc(_, _)
\* x put behind every pair whose score is not smaller than its own
InsertDesc(x, s) ==
    IF s = <<>> THEN <<x>>
    ELSE IF Head(s)[2] >= x[2] THEN <<Head(s)>> \o InsertDesc(x, Tail(s))
    ELSE <<x>> \o s

RECURSIVE SortedDesc(_)
\* sorted(sim_scores, key=lambda x: x[1], reverse=True): descending by score;
\* Python's sort is stable, also with reverse=True, so pairs of equal score
\* keep the order they had
SortedDesc(s) ==
    IF s = <<>> THEN <<>>
    ELSE InsertDesc(s[Len(s)], SortedDesc(SubSeq(s, 1, Len(s) - 1)))

\* how a slice bound is read against a sequence of length len: a negative
\* bound counts from the end, and the result is clipped to 0..len
SliceBound(b, len) ==
    LET a == IF b < 0 THEN b + len ELSE b IN
    IF a < 0 THEN 0 ELSE IF a > len THEN len ELSE a

\* s[start:stop]
Slice(s, start, stop) ==
    LET lo == SliceBound(start, Len(s))
        hi == SliceBound(stop, Len(s))
    IN  IF lo < hi THEN SubSeq(s, lo + 1, hi) ELSE <<>>

\* sim_scores[1:top_n]
TopSliceShort(sorted, k) == Slice(sorted, 1, k)

\* sim_scores[1:top_n+1]
TopSlice(sorted, k) == Slice(sorted, 1, k + 1)

\* the three checks of lines 79-86 let the call through to the ranking
PassesValidation(t) ==
    /\ IsStr(t)
    /\ Strip(t.s) # <<>>
    /\ InTitles(t.s)

\* top_n+1 and the slice raise TypeError unless top_n is an int
Raises(t, k) == PassesValidation(t) /\ k.type # "int"

\* lines 88-93
Ranking(t, k) ==
    LET idx == FirstIndex(t.s)
        sim_scores == SortedDesc(Enumerate(cosine_sim.m[idx + 1]))
        top == TopSlice(sim_scores, k.n)
    IN  [i \in 1..Len(top) |-> df.rows[top[i][1] + 1].Title]

PyList(items) == [type |-> "list", items |-> items]

\* an exception leaving a block instead of a value
Raised(exc) == [type |-> exc, items |-> <<>>]

\* the try block with the blank check behind the lookup
TryBlockLookupFirst(t, k) ==
    IF ~IsStr(t) THEN PyList(<<MsgInvalidInput>>)
    ELSE IF ~InTitles(t.s) THEN PyList(<<MsgNotFound(t.s)>>)
    ELSE IF Strip(t.s) = <<>> THEN PyList(<<MsgPleaseEnter>>)
    ELSE IF Raises(t, k) THEN Raised("TypeError")
    ELSE PyList(Ranking(t, k))

\* the try block, lines 79-93: the list it returns, or the exception
TryBlock(t, k) ==
    IF ~IsStr(t) THEN PyList(<<MsgInvalidInput>>)
    ELSE IF Strip(t.s) = <<>> THEN PyList(<<MsgPleaseEnter>>)
    ELSE IF ~InTitles(t.s) THEN PyList(<<MsgNotFound(t.s)>>)
    ELSE IF Raises(t, k) THEN Raised("TypeError")
    ELSE PyList(Ranking(t, k))

\* recommend_articles without the except branch
RecommendArticlesNoExcept(t, k) == TryBlock(t, k)

\* recommend_articles(title, top_n): the try block, and the except branch
\* that turns any exception into the fourth message
RecommendArticles(t, k) ==
    LET r == TryBlock(t, k) IN
    IF r.type # "list" THEN PyList(<<MsgError>>) ELSE r

\* a call that sorts the similarity row in place (cosine_sim[idx].sort())
CallSortingRow(t, k) ==
    /\ title' = t
    /\ top_n' = k
    /\ recommendations' = RecommendArticles(t, k)
    /\ st_error' = IF Raises(t, k) THEN "Recommendation error" ELSE st_error
    /\ pc' = "called"
    /\ cosine_sim' =
          IF PassesValidation(t)
          THEN LET i == FirstIndex(t.s) + 1
                   s == SortedDesc(Enumerate(cosine_sim.m[i]))
               IN  [cosine_sim EXCEPT !.m[i] = [j \in 1..Len(s) |-> s[j][2]]]
          ELSE cosine_sim
    /\ UNCHANGED df

\* what a call leaves behind: the arguments, the returned list, and the
\* st.error of the except branch
Call(t, k) ==
    /\ title' = t
    /\ top_n' = k
    /\ recommendations' = RecommendArticles(t, k)
    /\ st_error' = IF Raises(t, k) THEN "Recommendation error" ELSE st_error
    /\ pc' = "called"
    /\ UNCHANGED <<df, cosine_sim>>

\* The arguments callers pass.
QueryStrings ==
    {<<>>, <<" ">>, <<"A">>, <<" ", "a">>} \cup {TitleOf(i) : i \in 1..MaxArticles}

TitleValues == {PyStr(s) : s \in QueryStrings} \cup {PyInt(123)}

TopNValues == {PyInt(k) : k \in (0 - MaxTopN)..MaxTopN} \cup {PyFloat(2)}

(***************************************************************************)
(* Presentation code.                                                      *)
(***************************************************************************)
FailurePrefixes == {<<"Article not found">>, <<"Invalid input">>, <<"Please enter">>}

\* lines 134-141 of recommender.py
RecommenderDisplay(r) ==
    LET recs == r.items IN
    IF recs # <<>> /\ ~(\E p \in FailurePrefixes : StartsWith(recs[1], p))
    THEN [ui |-> "recommender", kind |-> "numbered", called |-> TRUE, items |-> recs]
    ELSE IF recs # <<>>
    THEN [ui |-> "recommender", kind |-> "warning", called |-> TRUE, items |-> <<recs[1]>>]
    ELSE [ui |-> "recommender", kind |-> "info", called |-> TRUE, items |-> <<>>]

\* lines 103-141 of recommender.py: the selectbox, the search box, the call
\* with the default top_n and the display of its result
RecommenderUI ==
    /\ pc = "ui"
    /\ \E sel \in 1..Size, search_query \in QueryStrings :
          LET selected_article == Titles[sel]
              article_to_recommend ==
                  IF search_query # <<>> THEN search_query ELSE selected_article
          IN  /\ Call(PyStr(article_to_recommend), PyInt(DefaultTopN))
              /\ display' = RecommenderDisplay(
                                RecommendArticles(PyStr(article_to_recommend),
                                                  PyInt(DefaultTopN)))

\* lines 13-21 of app.py: the Recommend button
AppRecommend ==
    /\ pc = "imported"
    /\ \E article_title \in QueryStrings :
          IF article_title # <<>>
          THEN /\ Call(PyStr(article_title), PyInt(DefaultTopN))
               /\ display' = [ui |-> "app", kind |-> "numbered", called |-> TRUE,
                               items |-> RecommendArticles(PyStr(article_title),
                                                           PyInt(DefaultTopN)).items]
          ELSE /\ display' = [ui |-> "app", kind |-> "warning", called |-> FALSE,
                               items |-> <<MsgPleaseEnter \o <<".">> >>]
               /\ pc' = "called"
               /\ UNCHANGED <<df, cosine_sim, title, top_n, recommendations, st_error>>

\* any other caller of the imported function, with any arguments
RecommendCall ==
    /\ pc = "imported"
    /\ \E t \in TitleValues, k \in TopNValues : Call(t, k)
    /\ display' = NoDisplay

\* The script run ends; the next interaction starts a new run with an empty
\* page, the module and its index staying as they are.
ScriptEnd ==
    /\ pc = "called"
    /\ pc' = "imported"
    /\ title' = None
    /\ top_n' = None
    /\ recommendations' = NoList
    /\ display' = NoDisplay
    /\ st_error' = ""
    /\ UNCHANGED <<df, cosine_sim>>

Init ==
    /\ pc = "load"
    /\ df = NoTable
    /\ cosine_sim = NoMatrix
    /\ st_error = ""
    /\ title = None
    /\ top_n = None
    /\ recommendations = NoList
    /\ display = NoDisplay

Next ==
    \/ LoadArticles
    \/ CheckLoaded
    \/ ProcessArticles
    \/ RecommenderUI
    \/ AppRecommend
    \/ RecommendCall
    \/ ScriptEnd

Spec == Init /\ [][Next]_vars

(***************************************************************************)
(* Vocabulary of the properties.                                           *)
(***************************************************************************)
Min(a, b) == IF a < b THEN a ELSE b
Max(a, b) == IF a > b THEN a ELSE b

\* a call of recommend_articles has just returned or raised
Answered == pc = "called" /\ recommendations # NoList

Returned == recommendations.items

CorpusTitles == {df.rows[i].Title : i \in 1..Len(df.rows)}

\* the title names an article: a string, not blank, stored in the table
ValidQuery ==
    /\ title.type = "str"
    /\ \E i \in 1..Len(title.s) : title.s[i] # " "
    /\ title.s \in CorpusTitles

\* the call got through to a ranking
Successful == Answered /\ ValidQuery /\ top_n.type = "int"

\* position (from 0) of the row with this title; titles are unique
PosOf(s) == CHOOSE p \in 0..(Len(df.rows) - 1) : df.rows[p + 1].Title = s

QueryPos == PosOf(title.s)

\* similarity of the query article to the article at position p
Score(p) == cosine_sim.m[QueryPos + 1][p + 1]

\* positions of the articles other than the query, in corpus order
RECURSIVE OthersFrom(_)
OthersFrom(p) ==
    IF p >= Len(df.rows) THEN <<>>
    ELSE IF p = QueryPos THEN OthersFrom(p + 1)
    ELSE <<df.rows[p + 1].Title>> \o OthersFrom(p + 1)

FailureMessages ==
    {MsgInvalidInput, MsgPleaseEnter, MsgError} \cup
    {MsgNotFound(s) : s \in QueryStrings}

(***************************************************************************)
(* C1.  The list returned for a title of the corpus and top_n >= 1 never   *)
(* contains that title.                                                    *)
(***************************************************************************)
C1_NeverReturnsQuery ==
    (Successful /\ top_n.n >= 1) =>
        \A i \in 1..Len(Returned) : Returned[i] # title.s

(***************************************************************************)
(* C2.  For a title of the corpus and an integer top_n >= 1 the call       *)
(* returns exactly min(top_n, n - 1) titles of the corpus, and no failure  *)
(* message, also when top_n exceeds n - 1.                                 *)
(***************************************************************************)
C2_Length ==
    (Successful /\ top_n.n >= 1) =>
        /\ Len(Returned) = Min(top_n.n, Len(df.rows) - 1)
        /\ \A i \in 1..Len(Returned) : Returned[i] \in CorpusTitles

C2_Witness ==
    /\ Successful
    /\ Len(df.rows) = MaxArticles
    /\ top_n.n > Len(df.rows) - 1
    /\ Len(Returned) = Len(df.rows) - 1

(***************************************************************************)
(* C3.  The title is validated before any ranking, in this order: not a    *)
(* string; blank after trimming; no exact match among the titles.  Each    *)
(* returns its own one-message list; only a title that passes all three    *)
(* gets a ranking (or the message of the except branch).                   *)
(***************************************************************************)
C3_ValidationOrder ==
    Answered =>
        IF title.type # "str" THEN Returned = <<MsgInvalidInput>>
        ELSE IF \A i \in 1..Len(title.s) : title.s[i] = " "
             THEN Returned = <<MsgPleaseEnter>>
        ELSE IF title.s \notin CorpusTitles
             THEN Returned = <<<<"Article not found", ": '">> \o title.s \o <<"'">>>>
        ELSE \/ Returned = <<MsgError>>
             \/ \A i \in 1..Len(Returned) : Returned[i] \in CorpusTitles

C3_Witness ==
    /\ Answered
    /\ title = PyStr(<<" ", "a">>)
    /\ <<"a">> \in CorpusTitles
    /\ Returned = <<MsgNotFound(<<" ", "a">>)>>

(***************************************************************************)
(* C4.  recommend_articles never raises: every call returns a list, and    *)
(* every failure (a title that fails validation, an exception in the       *)
(* ranking) is a list of one of the four messages.                         *)
(***************************************************************************)
C4_NeverRaises ==
    Answered =>
        /\ recommendations.type = "list"
        /\ (~ValidQuery \/ top_n.type # "int") =>
               /\ Len(Returned) = 1
               /\ Returned[1] \in FailureMessages

C4_Witness ==
    /\ Answered
    /\ ValidQuery
    /\ top_n.type = "float"
    /\ Returned = <<MsgError>>
    /\ st_error = "Recommendation error"

(***************************************************************************)
(* C5.  The presentation code shows every failure result as a warning,     *)
(* never as numbered recommendations, and shows every ranking (here: every *)
(* ranking that holds a title) as numbered recommendations.                *)
(***************************************************************************)
C5_DisplayTellsFailure ==
    (Answered /\ display.called) =>
        /\ (~ValidQuery \/ top_n.type # "int") => display.kind = "warning"
        /\ (Successful /\ Returned # <<>>) => display.kind = "numbered"

(***************************************************************************)
(* C6.  The titles of a ranking are in order of non-increasing similarity  *)
(* to the query article, and two of equal similarity are in corpus order.  *)
(***************************************************************************)
C6_OrderedStable ==
    Successful =>
        \A i, j \in 1..Len(Returned) :
            i < j =>
                \/ Score(PosOf(Returned[i])) > Score(PosOf(Returned[j]))
                \/ /\ Score(PosOf(Returned[i])) = Score(PosOf(Returned[j]))
                   /\ PosOf(Returned[i]) < PosOf(Returned[j])

C6_Witness ==
    /\ Successful
    /\ Len(Returned) >= 2
    /\ Returned[1] # title.s
    /\ Returned[2] # title.s
    /\ Score(PosOf(Returned[1])) = Score(PosOf(Returned[2]))
    /\ Score(PosOf(Returned[1])) > 0

(***************************************************************************)
(* C7.  When the similarity row of the query article is all 0, diagonal    *)
(* included, the call returns the first min(top_n, n - 1) of the other     *)
(* articles in corpus order, wherever the query article is in the corpus.  *)
(***************************************************************************)
C7_ZeroRowCorpusOrder ==
    (/\ Successful
     /\ top_n.n >= 1
     /\ \A p \in 0..(Len(df.rows) - 1) : Score(p) = 0) =>
        Returned = SubSeq(OthersFrom(0), 1, Min(top_n.n, Len(df.rows) - 1))

(***************************************************************************)
(* C8.  For a title of the corpus and any integer top_n, zero and negative *)
(* included, the call returns at most max(top_n, 0) titles and at most     *)
(* n - 1 titles.                                                           *)
(***************************************************************************)
C8_AtMostTopN ==
    Successful =>
        /\ Len(Returned) <= Max(top_n.n, 0)
        /\ Len(Returned) <= Len(df.rows) - 1

(***************************************************************************)
(* C9.  No call, successful or failing, changes the table or the           *)
(* similarity matrix: once the index is built, every step leaves both as   *)
(* they were, so a later call reads what an earlier one read.              *)
(***************************************************************************)
C9_IndexUnchanged ==
    [][(pc \in {"ui", "imported", "called"}) => UNCHANGED <<df, cosine_sim>>]_vars

C9_Witness ==
    /\ Answered
    /\ display.ui = "app"
    /\ Successful
    /\ Returned # <<>>

(***************************************************************************)
(* C10.  No query is answered before the index is built: a failed load or  *)
(* a failed build reports its error and stops with no call made and no     *)
(* matrix, and wherever a call can be or has been made the table and the   *)
(* matrix exist and the matrix is one built from the rows of that table.   *)
(***************************************************************************)
C10_IndexBeforeQuery ==
    /\ pc = "stopped" =>
          /\ st_error # ""
          /\ recommendations = NoList
          /\ cosine_sim = NoMatrix
    /\ (pc \in {"ui", "imported", "called"} \/ recommendations # NoList) =>
          /\ df.type = "DataFrame"
          /\ cosine_sim.type = "ndarray"
          /\ Len(df.rows) >= 1
          /\ Len(cosine_sim.m) = Len(df.rows)
          /\ \A i \in 1..Len(df.rows) :
                /\ Len(cosine_sim.m[i]) = Len(df.rows)
                /\ cosine_sim.m[i][i] =
                      (IF df.rows[i].Article = "stopwords" THEN 0 ELSE MaxScore)
                /\ \A j \in 1..Len(df.rows) :
                      /\ cosine_sim.m[i][j] = cosine_sim.m[j][i]
                      /\ df.rows[i].Article = "stopwords" => cosine_sim.m[i][j] = 0

C10_Witness ==
    /\ pc = "stopped"
    /\ df.type = "DataFrame"
    /\ st_error = "Error processing articles"

=============================================================================
